---- MODULE Spec2Model ----
(***************************************************************************)
(* Model of python-crawler/main.py: main() loads a URL list, reads the     *)
(* concurrency limit from the command line, and crawl_urls() runs one      *)
(* fetch_url coroutine per URL under an asyncio.Semaphore; main() then     *)
(* aggregates the results into a summary.                                  *)
(*                                                                         *)
(* Strings the program formats or parses are sequences of one-character    *)
(* strings (or of fixed text fragments), so that formatting, trimming and  *)
(* integer parsing are computed and not assumed.  Time is a discrete clock *)
(* that advances TickStep seconds per tick.                                *)
(***************************************************************************)
EXTENDS Integers, Sequences, FiniteSets, TLC

(* ---------------------------- bounds ----------------------------------- *)
MaxUrls == 2
MaxTicks == 2
TickStep == 5
MaxText == 2

(* ----------------------- program constants ----------------------------- *)
DEFAULT_CONCURRENCY == 10
REQUEST_TIMEOUT == 10
HTTP_OK == 200
ERR_STATUS == 0 - 1

(* ----------------------------- inputs ---------------------------------- *)
U_A == "https://a.test/"
U_B == "https://b.test/p"
U_BAD == "http://["
URLS == {U_A, U_B, U_BAD}

UrlLists == UNION {[1..n -> URLS] : n \in 0..MaxUrls}

PROG == <<"m", "a", "i", "n">>
\* sys.argv: the program name, optionally followed by the concurrency argument
ArgStrings == {<<"x">>, <<"0">>, <<"-", "1">>, <<"1">>}
Argvs == {<<PROG>>} \cup {<<PROG, a>> : a \in ArgStrings}

STATUSES == {200, 404, 500}
CrawlStatuses == {200, 404}

CT_HTML == <<"text/html">>
CT_HTML_UTF8 == <<"text/html", "; charset=utf-8">>
CT_JSON == <<"application/json">>
CT_PNG == <<"image/png">>
CT_NONE == <<>>
ContentTypes == {CT_HTML, CT_HTML_UTF8, CT_JSON, CT_PNG, CT_NONE}

(* --------------------------- pure helpers ------------------------------ *)
IsSpace(c) == c = " "

RECURSIVE LStrip(_)
LStrip(s) == IF s # <<>> /\ IsSpace(Head(s)) THEN LStrip(Tail(s)) ELSE s

RECURSIVE RStrip(_)
RStrip(s) ==
  IF s # <<>> /\ IsSpace(s[Len(s)]) THEN RStrip(SubSeq(s, 1, Len(s) - 1)) ELSE s

\* str.strip()
PyStrip(s) == RStrip(LStrip(s))

DIGITS == <<"0", "1", "2", "3", "4", "5", "6", "7", "8", "9">>
IsDigit(c) == \E d \in 1..10 : DIGITS[d] = c
DigitVal(c) == (CHOOSE d \in 1..10 : DIGITS[d] = c) - 1

RECURSIVE DigitsVal(_)
DigitsVal(s) ==
  IF s = <<>> THEN 0 ELSE 10 * DigitsVal(SubSeq(s, 1, Len(s) - 1)) + DigitVal(s[Len(s)])

RECURSIVE NatStr(_)
NatStr(n) == IF n < 10 THEN <<DIGITS[n + 1]>> ELSE NatStr(n \div 10) \o <<DIGITS[(n % 10) + 1]>>

\* str(n) for an int
PyStr(n) == IF n < 0 THEN <<"-">> \o NatStr(0 - n) ELSE NatStr(n)

\* int(s): surrounding whitespace is dropped, one optional sign, then digits;
\* anything else raises ValueError (ok = FALSE)
PyInt(s) ==
  LET t == PyStrip(s)
      signed == t # <<>> /\ Head(t) \in {"+", "-"}
      body == IF signed THEN Tail(t) ELSE t
      valid == body # <<>> /\ \A k \in 1..Len(body) : IsDigit(body[k])
  IN IF ~valid THEN [ok |-> FALSE, val |-> 0]
     ELSE [ok |-> TRUE,
           val |-> IF signed /\ Head(t) = "-" THEN 0 - DigitsVal(body) ELSE DigitsVal(body)]

\* urlparse(url): raises ValueError on an unbalanced bracket in the netloc
UrlparseRaises(url) == url = U_BAD

\* urlparse(url).netloc
Netloc(url) ==
  CASE url = U_A -> "a.test"
    [] url = U_B -> "b.test"
    [] OTHER -> ""

\* 'needle' in content_type
Contains(content_type, needle) == \E k \in 1..Len(content_type) : content_type[k] = needle

(* ------------------------ response bodies ------------------------------ *)
Texts == UNION {[1..n -> {" ", "E"}] : n \in 1..MaxText}

\* an HTML document, reduced to its title element: absent, or present with a
\* list of text children (html.parser creates no empty text node)
HtmlBody(has_title, children) ==
  [kind |-> "html", has_title |-> has_title, children |-> children,
   ok |-> TRUE, repr |-> <<>>]

HtmlBodies ==
  {HtmlBody(FALSE, <<>>)} \cup
  {HtmlBody(TRUE, c) : c \in {<<>>} \cup {<<t>> : t \in Texts}}

\* a JSON body: malformed, or a value given by the characters of str(value)
JsonBody(ok, repr) ==
  [kind |-> "json", has_title |-> FALSE, children |-> <<>>, ok |-> ok, repr |-> repr]

JsonBodies ==
  {JsonBody(FALSE, <<>>)} \cup
  {JsonBody(TRUE, r) : r \in {<<"{", "}">>, <<"[", "1", "]">>}}

NoBody == [kind |-> "none", has_title |-> FALSE, children |-> <<>>, ok |-> FALSE, repr |-> <<>>]

ErrMessages == {<<"Cannot connect to host">>, <<>>}
JSON_ERROR == <<"Expecting value">>

(* ---------------------- Python values for title ------------------------ *)
PyNone == [type |-> "NoneType", val |-> <<>>]
PyString(s) == [type |-> "str", val |-> s]

NO_TITLE == <<"No title found">>
NONE_TEXT == <<"N", "o", "n", "e">>

\* Tag.string: the single text child, otherwise None
TagString(children) == IF Len(children) = 1 THEN PyString(children[1]) ELSE PyNone

\* main.py:25  title = soup.title.string if soup.title else "No title found"
HtmlTitle(body) ==
  IF body.has_title THEN TagString(body.children) ELSE PyString(NO_TITLE)

\* main.py:30
JsonTitle(body) ==
  PyString(<<"JSON Response: ">> \o PyStr(Len(body.repr)) \o <<" characters">>)

\* main.py:32
OtherTitle(content_type) == PyString(<<"Non-HTML content: ">> \o content_type)

\* main.py:37  title.strip() if isinstance(title, str) else str(title)
FinalTitle(title) == IF title.type = "str" THEN PyStrip(title.val) ELSE NONE_TEXT

(* ------------------------ FetchResult builders ------------------------- *)
NoResult == [url |-> "", title |-> <<>>, status |-> 0, time_taken |-> 0, domain |-> ""]

\* main.py:35-41
OkResult(url, title, status, start, now) ==
  [url |-> url, title |-> FinalTitle(title), status |-> status,
   time_taken |-> now - start, domain |-> Netloc(url)]

\* an HTTP error recorded under the failure sentinel
HttpErrorResult_Sentinel(url, status, start, now) ==
  [url |-> url, title |-> <<"Error: HTTP ">> \o PyStr(status), status |-> ERR_STATUS,
   time_taken |-> now - start, domain |-> Netloc(url)]

\* main.py:43-49
HttpErrorResult(url, status, start, now) ==
  [url |-> url, title |-> <<"Error: HTTP ">> \o PyStr(status), status |-> status,
   time_taken |-> now - start, domain |-> Netloc(url)]

\* a timeout that falls into the general handler: str(TimeoutError()) is empty
TimeoutResult_AsGenericError(url, start, now) ==
  [url |-> url, title |-> <<"Error: ">>, status |-> ERR_STATUS,
   time_taken |-> now - start, domain |-> Netloc(url)]

\* main.py:50-57
TimeoutResult(url, start, now) ==
  [url |-> url, title |-> <<"Error: Timeout">>, status |-> ERR_STATUS,
   time_taken |-> now - start, domain |-> Netloc(url)]

\* a failure after the response head recorded under the response's status
ExceptionResult_KeepsHttpStatus(url, msg, start, now) ==
  [url |-> url, title |-> <<"Error: ">> \o msg, status |-> HTTP_OK,
   time_taken |-> now - start, domain |-> Netloc(url)]

\* main.py:58-65
ExceptionResult(url, msg, start, now) ==
  [url |-> url, title |-> <<"Error: ">> \o msg, status |-> ERR_STATUS,
   time_taken |-> now - start, domain |-> Netloc(url)]

(* ------------------------------ state ---------------------------------- *)
VARIABLES
  pc,               \* position of main()
  argv,             \* sys.argv
  file_exists,      \* os.path.exists(urls_file)
  file_urls,        \* the non-blank lines of urls.txt
  urls,             \* main's urls
  max_concurrency,  \* main's max_concurrency
  sem,              \* the semaphore's free-slot count; NoSem before it exists
  task,             \* task[i]: the fetch_url coroutine for urls[i]
  clock,            \* wall clock, seconds
  run_start,        \* main's start_time
  results,          \* what crawl_urls returned
  summary,          \* main's summary
  saved,            \* the report written by save_results; NoReport before
  exit_code         \* process exit code; NoExit while running

vars == <<pc, argv, file_exists, file_urls, urls, max_concurrency, sem, task,
          clock, run_start, results, summary, saved, exit_code>>

NoSem == 0 - 1000
Unset == 0 - 1000
NoExit == 0 - 1
NoSummary == [total_urls |-> 0 - 1, successful_fetches |-> 0 - 1,
              failed_fetches |-> 0 - 1, total_time |-> 0 - 1,
              average_time_per_url |-> [num |-> 0, den |-> 1]]
NoReport == [summary |-> NoSummary, results |-> <<>>]

\* net, http_status, content_type and body record what the network gave the
\* task; gets counts its calls of session.get
NewTask == [pc |-> "created", start_time |-> 0, acq_time |-> 0, gets |-> 0,
            net |-> "none", http_status |-> 0, content_type |-> <<>>, body |-> NoBody,
            result |-> NoResult]

Idx == 1..Len(urls)
Holding(i) == task[i].pc \in {"request", "body"}
Holders == {i \in DOMAIN task : Holding(i)}
\* the deadline counted from the task's start instead of from its request
Elapsed_FromStart(i) == clock - task[i].start_time

\* seconds since the task issued its request
Elapsed(i) == clock - task[i].acq_time

InitWith(lists, args) ==
  /\ pc = "start"
  /\ argv \in args
  /\ file_exists \in BOOLEAN
  /\ file_urls \in (IF file_exists THEN lists ELSE {<<>>})
  /\ urls = <<>>
  /\ max_concurrency = Unset
  /\ sem = NoSem
  /\ task = <<>>
  /\ clock = 0
  /\ run_start = 0
  /\ results = <<>>
  /\ summary = NoSummary
  /\ saved = NoReport
  /\ exit_code = NoExit

Init == InitWith(UrlLists, Argvs)

(* --------------------------- main(), part 1 ---------------------------- *)
\* main.py:96-103
LoadUrls ==
  /\ pc = "start"
  /\ IF ~file_exists
       THEN /\ pc' = "exit"
            /\ exit_code' = 1
            /\ urls' = urls
       ELSE /\ pc' = "loaded"
            /\ urls' = file_urls
            /\ exit_code' = exit_code
  /\ UNCHANGED <<argv, file_exists, file_urls, max_concurrency, sem, task, clock,
                 run_start, results, summary, saved>>

\* main.py:106-111
ParsedConcurrency(av) ==
  IF Len(av) > 1
    THEN IF PyInt(av[2]).ok THEN PyInt(av[2]).val ELSE DEFAULT_CONCURRENCY
    ELSE DEFAULT_CONCURRENCY

ParseArgs ==
  /\ pc = "loaded"
  /\ max_concurrency' = ParsedConcurrency(argv)
  /\ pc' = "configured"
  /\ UNCHANGED <<argv, file_exists, file_urls, urls, sem, task, clock, run_start,
                 results, summary, saved, exit_code>>

(* ---------------------------- crawl_urls ------------------------------- *)
\* asyncio.Semaphore(value) raises ValueError when value < 0
SemaphoreRaises(value) == value < 0

\* the semaphore created with one slot too many
SemInit_OneMore(value) == value + 1

\* main.py:69  the initial number of free slots
SemInit(value) == value

\* main.py:116-119 and 69-77: the run starts, the semaphore is created and one
\* coroutine per URL is handed to gather; a negative limit ends the process
\* with a traceback
StartCrawl ==
  /\ pc = "configured"
  /\ run_start' = clock
  /\ IF SemaphoreRaises(max_concurrency)
       THEN /\ pc' = "exit"
            /\ exit_code' = 1
            /\ UNCHANGED <<sem, task>>
       ELSE /\ pc' = "running"
            /\ sem' = SemInit(max_concurrency)
            /\ task' = [i \in Idx |-> NewTask]
            /\ exit_code' = exit_code
  /\ UNCHANGED <<argv, file_exists, file_urls, urls, max_concurrency, clock,
                 results, summary, saved>>

(* ----------------------------- fetch_url ------------------------------- *)
TaskVarsUnchanged ==
  UNCHANGED <<pc, argv, file_exists, file_urls, urls, max_concurrency, clock,
              run_start, results, summary, saved, exit_code>>

\* the request issued when the task starts, outside "async with semaphore"
TaskStart_RequestFirst(i) ==
  /\ pc = "running"
  /\ task[i].pc = "created"
  /\ task' = [task EXCEPT ![i].start_time = clock, ![i].acq_time = clock,
                          ![i].gets = IF UrlparseRaises(urls[i]) THEN 0 ELSE 1,
                          ![i].pc = IF UrlparseRaises(urls[i]) THEN "raised" ELSE "request"]
  /\ sem' = sem
  /\ TaskVarsUnchanged

\* main.py:13-14: the start time is read and the URL parsed, outside the try
TaskStart(i) ==
  /\ pc = "running"
  /\ task[i].pc = "created"
  /\ task' = [task EXCEPT ![i].start_time = clock,
                          ![i].pc = IF UrlparseRaises(urls[i]) THEN "raised" ELSE "waiting"]
  /\ sem' = sem
  /\ TaskVarsUnchanged

\* off by one: a slot is handed out when none is left
SemLocked_OffByOne(value) == value < 0

\* Semaphore.locked(): no free slot
SemLocked(value) == value = 0

\* the start time read inside "async with semaphore"
Acquire_StampsStart(i) ==
  /\ pc = "running"
  /\ task[i].pc = "waiting"
  /\ ~SemLocked(sem)
  /\ sem' = sem - 1
  /\ task' = [task EXCEPT ![i].pc = "request", ![i].acq_time = clock,
                          ![i].start_time = clock, ![i].gets = task[i].gets + 1]
  /\ TaskVarsUnchanged

\* main.py:18-19: the slot is taken and the request issued
Acquire(i) ==
  /\ pc = "running"
  /\ task[i].pc = "waiting"
  /\ ~SemLocked(sem)
  /\ sem' = sem - 1
  /\ task' = [task EXCEPT ![i].pc = "request", ![i].acq_time = clock,
                          ![i].gets = task[i].gets + 1]
  /\ TaskVarsUnchanged

\* the slot is kept when the request timed out
ExitSlot_LeakOnTimeout(value, path) == IF path = "timeout" THEN value ELSE value + 1

\* leaving "async with semaphore" on the given path gives the slot back
ExitSlot(value, path) == value + 1

Finish(i, result, net, status, body, path) ==
  /\ task' = [task EXCEPT ![i].pc = "done", ![i].result = result, ![i].net = net,
                          ![i].http_status = status, ![i].body = body]
  /\ sem' = ExitSlot(sem, path)
  /\ TaskVarsUnchanged

NeedsBody(status, content_type) ==
  status = HTTP_OK /\ (Contains(content_type, "text/html") \/ Contains(content_type, "application/json"))

\* main.py:19-22, 26-28, 31-49: the response head arrives within the deadline
Respond(i, status, content_type) ==
  /\ pc = "running"
  /\ task[i].pc = "request"
  /\ Elapsed(i) < REQUEST_TIMEOUT
  /\ IF NeedsBody(status, content_type)
       THEN /\ task' = [task EXCEPT ![i].pc = "body", ![i].content_type = content_type,
                                    ![i].http_status = status]
            /\ sem' = sem
            /\ TaskVarsUnchanged
       ELSE IF status = HTTP_OK
         THEN Finish(i, OkResult(urls[i], OtherTitle(content_type), status,
                                 task[i].start_time, clock),
                     "response", status, NoBody, "ok")
         ELSE Finish(i, HttpErrorResult(urls[i], status, task[i].start_time, clock),
                     "response", status, NoBody, "http")

\* main.py:23-25, 34-41: the HTML body arrives within the deadline
ReadHtml(i, body) ==
  /\ pc = "running"
  /\ task[i].pc = "body"
  /\ Contains(task[i].content_type, "text/html")
  /\ Elapsed(i) < REQUEST_TIMEOUT
  /\ Finish(i, OkResult(urls[i], HtmlTitle(body), HTTP_OK, task[i].start_time, clock),
            "response", HTTP_OK, body, "ok")

\* main.py:28-30, 34-41, 58-65: the JSON body arrives within the deadline
ReadJson(i, body) ==
  /\ pc = "running"
  /\ task[i].pc = "body"
  /\ ~Contains(task[i].content_type, "text/html")
  /\ Elapsed(i) < REQUEST_TIMEOUT
  /\ IF body.ok
       THEN Finish(i, OkResult(urls[i], JsonTitle(body), HTTP_OK, task[i].start_time, clock),
                   "response", HTTP_OK, body, "ok")
       ELSE Finish(i, ExceptionResult(urls[i], JSON_ERROR, task[i].start_time, clock),
                   "decode_error", HTTP_OK, body, "error")

\* main.py:58-65: the connection or the body read fails
RequestFails(i, msg) ==
  /\ pc = "running"
  /\ Holding(i)
  /\ Elapsed(i) < REQUEST_TIMEOUT
  /\ Finish(i, ExceptionResult(urls[i], msg, task[i].start_time, clock),
            "error", task[i].http_status, NoBody, "error")

\* a timed-out request issued once more instead of being recorded
TimeoutFires_Retry(i) ==
  /\ pc = "running"
  /\ Holding(i)
  /\ Elapsed(i) >= REQUEST_TIMEOUT
  /\ task' = [task EXCEPT ![i].pc = "request", ![i].acq_time = clock,
                          ![i].gets = task[i].gets + 1]
  /\ sem' = sem
  /\ TaskVarsUnchanged

\* main.py:19, 50-57: the request's deadline passes
TimeoutFires(i) ==
  /\ pc = "running"
  /\ Holding(i)
  /\ Elapsed(i) >= REQUEST_TIMEOUT
  /\ Finish(i, TimeoutResult(urls[i], task[i].start_time, clock),
            "timeout", task[i].http_status, NoBody, "timeout")

\* a task the event loop can run at once: not yet started, or waiting for a
\* slot that is free
Ready(i) == task[i].pc = "created" \/ (task[i].pc = "waiting" /\ ~SemLocked(sem))

\* time passes while the event loop waits for the network (the straight-line
\* code up to a task's first suspension takes no time); a request whose
\* deadline has passed is timed out first
MaxClock == MaxTicks * TickStep

Tick ==
  /\ pc \in {"running", "collected"}
  /\ clock + TickStep <= MaxClock
  /\ \A i \in DOMAIN task : ~Ready(i)
  /\ \A i \in DOMAIN task : Holding(i) => Elapsed(i) < REQUEST_TIMEOUT
  /\ clock' = clock + TickStep
  /\ UNCHANGED <<pc, argv, file_exists, file_urls, urls, max_concurrency, sem, task,
                 run_start, results, summary, saved, exit_code>>

(* ------------------------ crawl_urls, the end -------------------------- *)
EndTime(t, i) == t[i].start_time + t[i].result.time_taken
EndsBefore(t, i, j) == EndTime(t, i) < EndTime(t, j) \/ (EndTime(t, i) = EndTime(t, j) /\ i < j)
CompletionRank(t, i) == 1 + Cardinality({j \in DOMAIN t : EndsBefore(t, j, i)})

\* results in the order the tasks completed
GatherResults_ByCompletion(t) ==
  [k \in DOMAIN t |-> t[CHOOSE i \in DOMAIN t : CompletionRank(t, i) = k].result]

\* main.py:77  gather returns the tasks' results in the order of its arguments
GatherResults(t) == [i \in DOMAIN t |-> t[i].result]

\* gather replaced by a wait for the first completed task
GatherReturns_FirstCompleted ==
  /\ pc = "running"
  /\ (task = <<>> \/ \E i \in DOMAIN task : task[i].pc = "done")
  /\ results' = [i \in DOMAIN task |-> task[i].result]
  /\ pc' = "collected"
  /\ UNCHANGED <<argv, file_exists, file_urls, urls, max_concurrency, sem, task, clock,
                 run_start, summary, saved, exit_code>>

GatherReturns ==
  /\ pc = "running"
  /\ \A i \in DOMAIN task : task[i].pc = "done"
  /\ results' = GatherResults(task)
  /\ pc' = "collected"
  /\ UNCHANGED <<argv, file_exists, file_urls, urls, max_concurrency, sem, task, clock,
                 run_start, summary, saved, exit_code>>

\* main.py:77, 119: an exception leaving a task leaves gather, crawl_urls and
\* asyncio.run, which cancels the unfinished tasks; the process ends with a
\* traceback
GatherRaises ==
  /\ pc = "running"
  /\ \E i \in DOMAIN task : task[i].pc = "raised"
  /\ task' = [i \in DOMAIN task |->
                IF task[i].pc \in {"done", "raised"} THEN task[i]
                ELSE [task[i] EXCEPT !.pc = "cancelled"]]
  /\ sem' = sem + Cardinality(Holders)
  /\ pc' = "exit"
  /\ exit_code' = 1
  /\ UNCHANGED <<argv, file_exists, file_urls, urls, max_concurrency, clock,
                 run_start, results, summary, saved>>

(* --------------------------- main(), part 2 ---------------------------- *)
\* sum(1 for r in rs if r["status"] == 200)
CountSuccessful(rs) == Cardinality({i \in DOMAIN rs : rs[i].status = HTTP_OK})

\* only the sentinel counted as a failure
CountFailed_OnlySentinel(rs) == Cardinality({i \in DOMAIN rs : rs[i].status = ERR_STATUS})

\* sum(1 for r in rs if r["status"] != 200)
CountFailed(rs) == Cardinality({i \in DOMAIN rs : rs[i].status # HTTP_OK})

\* the division without the guard for an empty list
AverageTime_NoGuard(total_time, us) == [num |-> total_time, den |-> Len(us)]

\* main.py:130  total_time / len(urls) if urls else 0, kept as a fraction
AverageTime(total_time, us) ==
  IF Len(us) > 0 THEN [num |-> total_time, den |-> Len(us)] ELSE [num |-> 0, den |-> 1]

\* the run's start time read only when the run is over
Summarize_StartReadLate ==
  /\ pc = "collected"
  /\ summary' = [total_urls |-> Len(urls),
                 successful_fetches |-> CountSuccessful(results),
                 failed_fetches |-> CountFailed(results),
                 total_time |-> clock - clock,
                 average_time_per_url |-> AverageTime(clock - clock, urls)]
  /\ pc' = "summarized"
  /\ UNCHANGED <<argv, file_exists, file_urls, urls, max_concurrency, sem, task, clock,
                 run_start, results, saved, exit_code>>

\* main.py:122-131
Summarize ==
  /\ pc = "collected"
  /\ summary' = [total_urls |-> Len(urls),
                 successful_fetches |-> CountSuccessful(results),
                 failed_fetches |-> CountFailed(results),
                 total_time |-> clock - run_start,
                 average_time_per_url |-> AverageTime(clock - run_start, urls)]
  /\ pc' = "summarized"
  /\ UNCHANGED <<argv, file_exists, file_urls, urls, max_concurrency, sem, task, clock,
                 run_start, results, saved, exit_code>>

\* main.py:142-148, and the normal end of the process
SaveResults ==
  /\ pc = "summarized"
  /\ saved' = [summary |-> summary, results |-> results]
  /\ pc' = "exit"
  /\ exit_code' = 0
  /\ UNCHANGED <<argv, file_exists, file_urls, urls, max_concurrency, sem, task, clock,
                 run_start, results, summary>>

(* -------------------------- specifications ----------------------------- *)
MainStep == LoadUrls \/ ParseArgs \/ StartCrawl \/ GatherReturns \/ GatherRaises
              \/ Summarize \/ SaveResults

\* what the servers of a whole crawl answer
CrawlContentTypes == {CT_HTML, CT_JSON}
CrawlHtmlBodies == {HtmlBody(TRUE, <<<<"E">>>>)}
CrawlJsonBodies == {JsonBody(FALSE, <<>>), JsonBody(TRUE, <<"{", "}">>)}
CrawlErrMessages == {<<"Cannot connect to host">>}

TaskStep(i) ==
  \/ TaskStart(i)
  \/ Acquire(i)
  \/ \E st \in CrawlStatuses, ct \in CrawlContentTypes : Respond(i, st, ct)
  \/ \E b \in CrawlHtmlBodies : ReadHtml(i, b)
  \/ \E b \in CrawlJsonBodies : ReadJson(i, b)
  \/ \E m \in CrawlErrMessages : RequestFails(i, m)
  \/ TimeoutFires(i)

Next ==
  \/ LoadUrls
  \/ ParseArgs
  \/ StartCrawl
  \/ \E i \in DOMAIN task : TaskStart(i)
  \/ \E i \in DOMAIN task : Acquire(i)
  \/ \E i \in DOMAIN task, st \in CrawlStatuses, ct \in CrawlContentTypes : Respond(i, st, ct)
  \/ \E i \in DOMAIN task, b \in CrawlHtmlBodies : ReadHtml(i, b)
  \/ \E i \in DOMAIN task, b \in CrawlJsonBodies : ReadJson(i, b)
  \/ \E i \in DOMAIN task, m \in CrawlErrMessages : RequestFails(i, m)
  \/ \E i \in DOMAIN task : TimeoutFires(i)
  \/ Tick
  \/ GatherReturns
  \/ GatherRaises
  \/ Summarize
  \/ SaveResults

Spec == Init /\ [][Next]_vars

\* a run over one URL, over everything a server can answer
NextFetch ==
  \/ LoadUrls
  \/ ParseArgs
  \/ StartCrawl
  \/ \E i \in DOMAIN task : TaskStart(i)
  \/ \E i \in DOMAIN task : Acquire(i)
  \/ \E i \in DOMAIN task, st \in STATUSES, ct \in ContentTypes : Respond(i, st, ct)
  \/ \E i \in DOMAIN task, b \in HtmlBodies : ReadHtml(i, b)
  \/ \E i \in DOMAIN task, b \in JsonBodies : ReadJson(i, b)
  \/ \E i \in DOMAIN task, m \in ErrMessages : RequestFails(i, m)
  \/ \E i \in DOMAIN task : TimeoutFires(i)
  \/ Tick
  \/ GatherReturns
  \/ GatherRaises
  \/ Summarize
  \/ SaveResults

InitFetch == InitWith({<<u>> : u \in URLS}, {<<PROG>>})

SpecFetch == InitFetch /\ [][NextFetch]_vars

\* the scheduling of a run: main and every task the event loop can run are
\* run, and every request in flight ends (response, failure or deadline)
TaskFair(i) == i \in DOMAIN task /\ TaskStep(i)

SpecFair ==
  /\ Init
  /\ [][Next]_vars
  /\ WF_vars(MainStep)
  /\ \A i \in 1..MaxUrls : WF_vars(TaskFair(i))

(* ------------------------------ claims --------------------------------- *)
Returned == pc \in {"collected", "summarized"} \/ (pc = "exit" /\ exit_code = 0)

\* C1: once the semaphore of a run with limit max_concurrency exists, the
\* number of tasks between acquiring and releasing a slot never exceeds the
\* limit.
C1_HoldersWithinLimit == sem # NoSem => Cardinality(Holders) <= max_concurrency

\* the limit binds: every slot is held and another task waits for one
C1_Witness ==
  /\ pc = "running"
  /\ max_concurrency >= 1
  /\ Cardinality(Holders) = max_concurrency
  /\ \E i \in DOMAIN task : task[i].pc = "waiting"

\* C2 (as claimed): no call of fetch_url lets a failure out; every task that
\* was started reaches a FetchResult and the process never dies of a task.
C2_NoFailureEscapes ==
  /\ \A i \in DOMAIN task : task[i].pc # "raised"
  /\ (pc = "exit" /\ file_exists /\ ~SemaphoreRaises(max_concurrency)) => exit_code = 0

\* C3: whenever crawl_urls has returned, results has one entry per input URL
\* and the entry at each position is the result for the URL at that position.
C3_ResultsInInputOrder ==
  Returned => /\ Len(results) = Len(urls)
              /\ \A i \in 1..Len(urls) : results[i].url = urls[i]

\* two different URLs whose tasks completed in the reverse of the input order
C3_Witness ==
  /\ Returned
  /\ Len(urls) >= 2
  /\ urls[1] # urls[2]
  /\ EndTime(task, 2) < EndTime(task, 1)
  /\ results[1].url = urls[1]

\* C4: no slot stays taken by a task that has left the fetch: the slots in use
\* are all held by tasks still in flight, and with no task in flight every
\* one of the max_concurrency slots is free, whatever path the tasks left by.
C4_SlotReleasedOnEveryExit ==
  sem # NoSem =>
    /\ max_concurrency - sem <= Cardinality(Holders)
    /\ (Holders = {} => sem = max_concurrency)

\* both tasks are done, one by timeout and one by an error, and the slot is free
C4_Witness ==
  /\ pc = "collected"
  /\ max_concurrency = 1
  /\ Len(urls) = 2
  /\ task[1].net = "timeout"
  /\ task[2].net \in {"error", "decode_error"}
  /\ sem = max_concurrency

\* C5 (as claimed): under fair scheduling, with every request in flight
\* ending by a response, a failure or its deadline, a run whose tasks were
\* dispatched eventually returns a result for every URL and writes the report.
C5_RunCompletes ==
  (pc = "running") ~> (saved # NoReport /\ Len(saved.results) = Len(urls))

\* the runs C5 holds for: a limit of at least one and URLs that urlparse accepts
C5_RunCompletesWhenAdmissible ==
  (pc = "running" /\ max_concurrency >= 1 /\ \A i \in Idx : ~UrlparseRaises(urls[i]))
    ~> (Returned /\ Len(results) = Len(urls))

\* C6: in every summary, successful_fetches + failed_fetches = total_urls,
\* and total_urls is the length of the input URL list.
C6_CountsAddUp ==
  summary # NoSummary =>
    /\ summary.successful_fetches + summary.failed_fetches = summary.total_urls
    /\ summary.total_urls = Len(file_urls)

\* a summary over one success and one HTTP error
C6_Witness ==
  /\ summary # NoSummary
  /\ summary.successful_fetches = 1
  /\ summary.failed_fetches = 1
  /\ \E i \in DOMAIN results : results[i].status = 404

\* C7: a task whose request is still in flight when its deadline has passed
\* ends with status -1 and title "Error: Timeout", and that step leaves the
\* run going and every other task as it was.
C7_TimeoutRecorded ==
  [][\A i \in DOMAIN task :
       (Holding(i) /\ Elapsed(i) >= REQUEST_TIMEOUT /\ task'[i].pc = "done") =>
         /\ task'[i].result.status = 0 - 1
         /\ task'[i].result.title = <<"Error: Timeout">>
         /\ pc' = "running"
         /\ \A j \in DOMAIN task \ {i} : task'[j] = task[j]]_vars

\* the first fetch timed out; the second one then got the slot and succeeded
C7_Witness ==
  /\ pc = "collected"
  /\ max_concurrency = 1
  /\ Len(urls) = 2
  /\ results[1].status = 0 - 1
  /\ results[1].title = <<"Error: Timeout">>
  /\ task[2].acq_time >= REQUEST_TIMEOUT
  /\ results[2].status = 200

GotHttpError(i) ==
  task[i].pc = "done" /\ task[i].net = "response" /\ task[i].http_status # 200

GotSuccess(i) ==
  task[i].pc = "done" /\ task[i].net = "response" /\ task[i].http_status = 200

\* C8: a task that received a response with status s other than 200 has the
\* result status s, not -1, and the title "Error: HTTP s"; in the summary the
\* failures are exactly the tasks that did not end with a 200 response.
C8_HttpErrorRecorded ==
  /\ \A i \in DOMAIN task :
       GotHttpError(i) =>
         /\ task[i].result.status = task[i].http_status
         /\ task[i].result.status # 0 - 1
         /\ task[i].result.title = <<"Error: HTTP ">> \o PyStr(task[i].http_status)
         /\ (task[i].http_status = 404 =>
               task[i].result.title = <<"Error: HTTP ", "4", "0", "4">>)
  /\ summary # NoSummary =>
       summary.failed_fetches = Cardinality({i \in DOMAIN task : ~GotSuccess(i)})

\* a summary over a 404 response and a success
C8_Witness ==
  /\ summary # NoSummary
  /\ \E i \in DOMAIN task : GotHttpError(i) /\ task[i].http_status = 404
  /\ \E i \in DOMAIN task : GotSuccess(i)
  /\ summary.failed_fetches = 1

\* the concurrency argument is a positive integer
ValidConcurrencyArg(a) == PyInt(a).ok /\ PyInt(a).val > 0

\* C9 (as claimed): once the arguments are read, an argument that is not a
\* positive integer leaves the limit at the default, 10.
C9_InvalidArgUsesDefault ==
  (pc \notin {"start", "loaded"} /\ file_exists /\ Len(argv) > 1
     /\ ~ValidConcurrencyArg(argv[2]))
    => max_concurrency = 10

\* the title C10 expects of an HTML body
ExpectedHtmlTitle(body) ==
  IF ~body.has_title \/ body.children = <<>> THEN <<"No title found">>
  ELSE PyStrip(body.children[1])

\* C10 (as claimed): a 200 text/html response gives the trimmed text of the
\* title element, and "No title found" when the document has no title element
\* or the element has no text.
C10_HtmlTitle ==
  \A i \in DOMAIN task :
    (GotSuccess(i) /\ task[i].body.kind = "html") =>
      task[i].result.title = ExpectedHtmlTitle(task[i].body)

\* the task read a JSON body that does not decode
GotMalformedJson(i) ==
  task[i].pc = "done" /\ task[i].body.kind = "json" /\ ~task[i].body.ok

\* C11: a task whose 200 application/json response has a body that does not
\* decode ends with status -1 and a title "Error: " followed by the message,
\* not as a raised task; the summary counts it among the failures.
C11_DecodeErrorRecorded ==
  /\ \A i \in DOMAIN task :
       GotMalformedJson(i) =>
         /\ task[i].http_status = 200
         /\ task[i].result.status = 0 - 1
         /\ Len(task[i].result.title) >= 1
         /\ task[i].result.title[1] = "Error: "
         /\ task[i].result.url = urls[i]
  /\ summary # NoSummary =>
       summary.failed_fetches >= Cardinality({i \in DOMAIN task : GotMalformedJson(i)})

\* a finished run over a malformed JSON body and a success
C11_Witness ==
  /\ summary # NoSummary
  /\ \E i \in DOMAIN task : GotMalformedJson(i)
  /\ \E i \in DOMAIN task : GotSuccess(i)
  /\ summary.failed_fetches = 1
  /\ summary.successful_fetches = 1

\* C12 (as claimed): the process ends with exit code 1 exactly when the URL
\* file is missing, and then before any fetch was dispatched; every other run
\* that ends, ends with exit code 0.
C12_ExitCodes ==
  pc = "exit" =>
    /\ (~file_exists => (exit_code = 1 /\ task = <<>> /\ sem = NoSem))
    /\ (file_exists => exit_code = 0)

\* the half of C12 that holds: a missing file ends the process with code 1
\* before the semaphore or any task exists
C12_MissingFileExits ==
  (~file_exists /\ pc # "start") => (pc = "exit" /\ exit_code = 1 /\ task = <<>> /\ sem = NoSem)

\* C13: in every summary the average is a well-defined quotient (no division
\* by zero); it equals total_time / total_urls when total_urls > 0 and is 0
\* when total_urls = 0.
C13_AverageTime ==
  summary # NoSummary =>
    LET avg == summary.average_time_per_url IN
      /\ avg.den # 0
      /\ IF summary.total_urls > 0
           THEN avg.num * summary.total_urls = summary.total_time * avg.den
           ELSE avg.num = 0

\* a summary over two URLs and a run of 10 seconds: the average is 5
C13_Witness ==
  /\ summary # NoSummary
  /\ summary.total_urls = 2
  /\ summary.total_time = 10
  /\ summary.average_time_per_url.num = 5 * summary.average_time_per_url.den

\* a run over an empty URL list that completed and wrote its report
C13_EmptyRun ==
  /\ pc = "exit"
  /\ exit_code = 0
  /\ file_urls = <<>>
  /\ saved.summary.total_urls = 0
  /\ saved.summary.average_time_per_url.num = 0

\* the orchestrator's state: Idle until the tasks are dispatched, Running
\* until crawl_urls has returned, Done from then on
Orchestrator ==
  IF Returned THEN "Done" ELSE IF sem # NoSem THEN "Running" ELSE "Idle"

OrchRank == CASE Orchestrator = "Idle" -> 0 [] Orchestrator = "Running" -> 1 [] OTHER -> 2

AllDelivered ==
  /\ Orchestrator = "Done"
  /\ DOMAIN task = 1..Len(urls)
  /\ Len(results) = Len(urls)
  /\ \A i \in DOMAIN task : task[i].pc = "done" /\ results[i] = task[i].result

\* C14: the orchestrator only moves forward, one state at a time, through
\* Idle, Running, Done; a summary or a report exists only when every
\* dispatched task has delivered its result; and in Done no task and no
\* result changes any more.
C14_OrchestratorForwardOnly ==
  /\ []((summary # NoSummary \/ saved # NoReport) => AllDelivered)
  /\ [][/\ OrchRank' \in {OrchRank, OrchRank + 1}
        /\ (Orchestrator = "Idle" /\ Orchestrator' = "Idle") => task' = <<>>
        /\ Orchestrator = "Done" =>
             (Orchestrator' = "Done" /\ task' = task /\ results' = results)]_vars

\* a run over two URLs that went through Running and ended in Done with its
\* report written
C14_Witness ==
  /\ Orchestrator = "Done"
  /\ pc = "exit"
  /\ Len(urls) = 2
  /\ saved.summary.total_urls = 2
  /\ Len(saved.results) = 2

\* the task's request is in flight: headers or body awaited
InNetworkIO(i) == task[i].pc \in {"request", "body"}

\* C15: a task enters the network-I/O phase only from waiting, in a step that
\* takes a free slot from the semaphore; so the tasks in network I/O never
\* outnumber the slots taken.
C15_RequestOnlyWithSlot ==
  /\ [](sem # NoSem =>
          Cardinality({i \in DOMAIN task : InNetworkIO(i)}) <= max_concurrency - sem)
  /\ [][\A i \in DOMAIN task :
          (~InNetworkIO(i) /\ task'[i].pc \in {"request", "body"}) =>
            (task[i].pc = "waiting" /\ sem > 0 /\ sem' = sem - 1)]_vars

\* one task has the only slot and its request in flight, the other waits
C15_Witness ==
  /\ pc = "running"
  /\ max_concurrency = 1
  /\ sem = 0
  /\ \E i \in DOMAIN task : InNetworkIO(i) /\ task[i].acq_time >= task[i].start_time
  /\ \E i \in DOMAIN task : task[i].pc = "waiting"

\* C16: no task calls session.get more than once: a task that has a result,
\* whatever its outcome, issued exactly one request, and a task that has not
\* yet got a slot issued none.
C16_AtMostOneGet ==
  \A i \in DOMAIN task :
    /\ task[i].gets <= 1
    /\ task[i].pc = "done" => task[i].gets = 1
    /\ task[i].pc \in {"created", "waiting", "raised"} => task[i].gets = 0

\* both tasks are done after one request each, one by timeout and one with
\* an HTTP error
C16_Witness ==
  /\ pc = "collected"
  /\ Len(urls) = 2
  /\ task[1].net = "timeout"
  /\ GotHttpError(2)
  /\ task[1].gets = 1
  /\ task[2].gets = 1

\* C17: a task's start time is fixed when the task starts, before it has a
\* slot, and taking the slot does not change it; so every result's
\* time_taken covers at least the time from the task's start to its slot.
C17_TimeTakenIncludesWait ==
  /\ [](\A i \in DOMAIN task :
          task[i].pc = "done" =>
            /\ task[i].start_time <= task[i].acq_time
            /\ task[i].result.time_taken >= task[i].acq_time - task[i].start_time)
  /\ [][\A i \in DOMAIN task :
          task[i].pc # "created" => task'[i].start_time = task[i].start_time]_vars

\* a task that waited 5 seconds for its slot and then spent 5 seconds on its
\* request: time_taken is 10
C17_Witness ==
  \E i \in DOMAIN task :
    /\ task[i].pc = "done"
    /\ task[i].acq_time - task[i].start_time = TickStep
    /\ task[i].result.time_taken = 2 * TickStep

RECURSIVE SumTimeTaken(_)
SumTimeTaken(rs) ==
  IF rs = <<>> THEN 0 ELSE rs[1].time_taken + SumTimeTaken(Tail(rs))

\* C18: total_time spans the whole run: no result's time_taken exceeds the
\* summary's total_time.
C18_TotalTimeSpansRun ==
  summary # NoSummary =>
    \A i \in DOMAIN results :
      /\ 0 <= results[i].time_taken
      /\ results[i].time_taken <= summary.total_time

\* two fetches that overlapped: each took 5 seconds and so did the whole run,
\* less than the 10 seconds the fetches add up to
C18_Witness ==
  /\ summary # NoSummary
  /\ Len(results) = 2
  /\ results[1].time_taken = TickStep
  /\ results[2].time_taken = TickStep
  /\ summary.total_time = TickStep
  /\ summary.total_time < SumTimeTaken(results)

\* C19: the deadline runs from the moment the task has its slot and issues
\* its request: a task that is still waiting for a slot has no result, and a
\* result "Error: Timeout" belongs to a task that issued its request at least
\* REQUEST_TIMEOUT seconds before the result was made.
C19_TimeoutOnlyAfterAcquire ==
  \A i \in DOMAIN task :
    /\ task[i].pc \in {"created", "waiting"} => task[i].result = NoResult
    /\ task[i].result.title = <<"Error: Timeout">> =>
         /\ task[i].pc = "done"
         /\ task[i].gets = 1
         /\ (task[i].start_time + task[i].result.time_taken) - task[i].acq_time
              >= REQUEST_TIMEOUT

\* a task that waited a full timeout for its slot and then succeeded
C19_Witness ==
  \E i \in DOMAIN task :
    /\ task[i].pc = "done"
    /\ task[i].acq_time - task[i].start_time >= REQUEST_TIMEOUT
    /\ task[i].result.status = 200

AcquireSome == \E i \in DOMAIN task : Acquire(i)

\* C20: once the semaphore exists, free slots plus tasks holding a slot make
\* max_concurrency; and while the run goes on, a task waiting with a slot free
\* can take it: no state leaves a task waiting beside a free slot with
\* nothing left to happen.
C20_SlotsConserved ==
  sem # NoSem =>
    /\ sem >= 0
    /\ sem + Cardinality(Holders) = max_concurrency
    /\ (pc = "running" /\ sem > 0 /\ \E i \in DOMAIN task : task[i].pc = "waiting")
         => ENABLED AcquireSome

\* one task holds a slot, a second one waits while slots are free
C20_Witness ==
  /\ pc = "running"
  /\ sem > 0
  /\ Cardinality(Holders) = 1
  /\ \E i \in DOMAIN task : task[i].pc = "waiting"
  /\ ENABLED AcquireSome

====
